---- MODULE Spec2Model ----
(***************************************************************************)
(* A model of comet/download_utils.py: the download / cache / extract /    *)
(* resolve workflow of download_model and download_file_maybe_extract.     *)
(*                                                                         *)
(* Python strings are sequences of one-character strings, so that string   *)
(* concatenation, os.path.join, endswith, split and the substring test     *)
(* `in` are computed as the code computes them.  The filesystem is a pair  *)
(* of sets of canonical paths (directories, regular files); a path string  *)
(* is resolved the way POSIX resolves it (repeated and trailing separators *)
(* collapse).                                                              *)
(***************************************************************************)
EXTENDS Naturals, Sequences, FiniteSets, TLC

VARIABLES
    fs,                 \* the filesystem: [dirs, files], sets of canonical paths
    available_metrics,  \* the registry imported from comet.models: model name -> url
    pc,                 \* position of the running call
    op,                 \* the function the caller invoked
    model,              \* download_model: local `model` (line 220 rewrites it)
    saving_directory,   \* download_model: local `saving_directory` (None is <<>>)
    url,                \* download_file_maybe_extract: `url`
    directory,          \* download_file_maybe_extract: `directory`
    filename,           \* download_file_maybe_extract: `filename` (an optional)
    extension,          \* download_file_maybe_extract: `extension` (an optional)
    check_files,        \* download_file_maybe_extract: `check_files` after line 163
    filepath,           \* download_file_maybe_extract: `filepath`
    content,            \* what the transfer wrote to `filepath`
    log,                \* the effects of the running call, in order
    ret,                \* the value the call returned (<<>> while it has not)
    exc,                \* the exception that ended the call ("" when none)
    fs0,                \* the filesystem when the call started
    args,               \* the arguments the caller passed
    prev,               \* the call completed just before this one
    listed,             \* the last directory listing the system delivered
    ncalls              \* calls made so far

vars == <<fs, available_metrics, pc, op, model, saving_directory, url, directory,
          filename, extension, check_files, filepath, content, log, ret, exc,
          fs0, args, prev, listed, ncalls>>

-----------------------------------------------------------------------------
(* Bounds of the model. *)

\* how many calls of download_model (or get_cache_folder) a behaviour makes
MaxCalls == 2
\* how many direct calls of download_file_maybe_extract a behaviour makes
MaxFileCalls == 1
\* how many marker files a caller passes in check_files
MaxMarkers == 2

-----------------------------------------------------------------------------
(* Python values. *)

\* an absent optional argument
None == <<>>
\* a present optional argument
Some(x) == <<x>>
\* "no exception"
NoExc == ""

\* string literals of the source
sep == <<"/">>
DOT == <<".">>
S_zip == <<"z", "i", "p">>
S_targz == <<"t", "a", "r", ".", "g", "z">>
S_tgz == <<"t", "g", "z">>
S_tar == <<"t", "a", "r">>
S_https == <<"h", "t", "t", "p", "s", ":", "/", "/">>
S_ckpt == <<".", "c", "k", "p", "t">>
S_checkpoints == <<"c", "h", "e", "c", "k", "p", "o", "i", "n", "t", "s">>

\* str.startswith
startswith(s, p) == Len(s) >= Len(p) /\ SubSeq(s, 1, Len(p)) = p
\* str.endswith
endswith(s, p) == Len(s) >= Len(p) /\ SubSeq(s, Len(s) - Len(p) + 1, Len(s)) = p
\* the substring test `sub in s`
contains(sub, s) ==
    \E i \in 1..(Len(s) + 1) :
        i + Len(sub) - 1 <= Len(s) /\ SubSeq(s, i, i + Len(sub) - 1) = sub
\* str.find of a one-character string: the first index, 0 when absent
find(s, c) ==
    IF \E i \in 1..Len(s) : s[i] = c
    THEN CHOOSE i \in 1..Len(s) : s[i] = c /\ \A j \in 1..(i - 1) : s[j] # c
    ELSE 0
\* str.rfind of a one-character string: the last index, 0 when absent
rfind(s, c) ==
    IF \E i \in 1..Len(s) : s[i] = c
    THEN CHOOSE i \in 1..Len(s) : s[i] = c /\ \A j \in (i + 1)..Len(s) : s[j] # c
    ELSE 0
\* s[i:] with a 1-based i
from(s, i) == SubSeq(s, i, Len(s))

\* os.path.join(a, b) of posixpath
os_path_join(a, b) ==
    IF startswith(b, sep) THEN b
    ELSE IF a = <<>> \/ endswith(a, sep) THEN a \o b
    ELSE a \o sep \o b

\* os.path.basename(p): what follows the last separator
os_path_basename(p) == from(p, rfind(p, "/") + 1)

\* urlparse(url).path: drop "scheme://netloc", then the query and the fragment
urlparse_path(u) ==
    LET i == find(u, ":")
        rest == IF i > 0 /\ startswith(from(u, i + 1), <<"/", "/">>)
                THEN from(u, i + 3) ELSE u
        j == find(rest, "/")
        p == IF rest = u THEN u ELSE IF j = 0 THEN <<>> ELSE from(rest, j)
        cut == {k \in 1..Len(p) : p[k] \in {"?", "#"}}
    IN IF cut = {} THEN p
       ELSE SubSeq(p, 1, (CHOOSE k \in cut : \A l \in cut : k <= l) - 1)

\* _get_filename_from_url
_get_filename_from_url(u) == os_path_basename(urlparse_path(u))

-----------------------------------------------------------------------------
(* The filesystem. *)

\* a path string without its repeated and trailing separators
RECURSIVE Canon(_)
Canon(p) ==
    IF p = <<>> THEN <<>>
    ELSE LET h == Canon(SubSeq(p, 1, Len(p) - 1))
             c == p[Len(p)]
         IN IF c = "/" THEN (IF Len(p) = 1 THEN sep ELSE h)
            ELSE IF Len(p) > 1 /\ p[Len(p) - 1] = "/" /\ h # sep THEN h \o sep \o <<c>>
            ELSE h \o <<c>>

\* the canonical paths of the directories above canonical path p
Ancestors(p) == {SubSeq(p, 1, i - 1) : i \in {k \in 2..Len(p) : p[k] = "/"}}

\* os.path.isdir
os_path_isdir(f, p) == Canon(p) \in f.dirs
\* os.path.isfile: a trailing separator names a directory only
os_path_isfile(f, p) == ~endswith(p, sep) /\ Canon(p) \in f.files
\* os.path.exists
os_path_exists(f, p) == os_path_isdir(f, p) \/ os_path_isfile(f, p)

\* os.makedirs(p): p and the directories above it; fails over a regular file
os_makedirs(f, p) ==
    LET c == Canon(p)
        want == Ancestors(c) \cup {c}
    IN IF c \in f.dirs \/ c \in f.files
       THEN [fs |-> f, exc |-> "FileExistsError"]
       ELSE IF want \cap f.files # {}
       THEN [fs |-> f, exc |-> "NotADirectoryError"]
       ELSE [fs |-> [f EXCEPT !.dirs = @ \cup want], exc |-> NoExc]

\* os.remove(p): unlinks a regular file, fails on a directory
os_remove(f, p) ==
    IF os_path_isfile(f, p)
    THEN [fs |-> [f EXCEPT !.files = @ \ {Canon(p)}], exc |-> NoExc]
    ELSE IF os_path_isdir(f, p) THEN [fs |-> f, exc |-> "IsADirectoryError"]
    ELSE [fs |-> f, exc |-> "FileNotFoundError"]

\* the names os.listdir(p) delivers (in an order the system chooses)
Entries(f, p) ==
    LET c == Canon(p)
    IN {from(q, Len(c) + 2) : q \in {x \in f.dirs \cup f.files :
            /\ Len(x) > Len(c) + 1
            /\ SubSeq(x, 1, Len(c) + 1) = c \o sep
            /\ \A k \in (Len(c) + 2)..Len(x) : x[k] # "/"}}

\* every order a set of names can be listed in
Orders(S) ==
    {q \in [1..Cardinality(S) -> S] : \A i, j \in 1..Cardinality(S) : i # j => q[i] # q[j]}

\* an archive's entries written below directory d (zip extractall, tar -C d -x)
Unpack(f, d, entries) ==
    LET targets == {Canon(os_path_join(d, e)) : e \in entries}
    IN [dirs |-> f.dirs \cup UNION {Ancestors(t) : t \in targets},
        files |-> f.files \cup targets]

-----------------------------------------------------------------------------
(* The inputs: names, the registry, what the network serves. *)

\* the saving directory the callers pass, without and with its separator
C_dir == <<"c">>
C_dirsep == <<"c", "/">>
\* model names: registered with an https url, registered with another
\* scheme, not registered
M_d == <<"d">>
M_b == <<"b">>
M_u == <<"u">>
URL_d == S_https \o <<"x", "/", "d", ".", "z", "i", "p">>
URL_b == <<"h", "t", "t", "p", ":", "/", "/", "x", "/", "b", ".", "z", "i", "p">>
\* the values `available_metrics` is imported with
Registries == {(M_d :> URL_d) @@ (M_b :> URL_b)}

\* file names inside a model directory and marker names
N_a == <<"a">> \o S_ckpt
N_b == <<"b">> \o S_ckpt
N_c == <<"c">> \o S_ckpt
N_n == <<"n">>
N_m == <<"m">>
N_k == <<"k">>

\* the path of a checkpoint entry inside an archive of model d
InModel(n) == M_d \o sep \o S_checkpoints \o sep \o n

\* what the server can answer with: archives (by format and entries) and
\* a file that is no archive
Contents ==
    { [kind |-> "zip", entries |-> {InModel(N_a), InModel(N_c), InModel(N_b)}],
      [kind |-> "zip", entries |-> {InModel(N_n)}],
      [kind |-> "zip", entries |-> {N_m, M_d \o sep \o N_n}],
      [kind |-> "tar.gz", entries |-> {N_m, N_k}],
      [kind |-> "tar", entries |-> {N_m}],
      [kind |-> "data", entries |-> {}] }
NoContent == [kind |-> "none", entries |-> {}]

\* how a transfer can end: an answer, no connection, a short read
TransferOutcomes ==
    {[exc |-> NoExc, content |-> c] : c \in Contents}
    \cup {[exc |-> "URLError", content |-> NoContent],
          [exc |-> "ContentTooShortError", content |-> NoContent]}

\* the marker lists a caller passes: lists of distinct marker names
RECURSIVE SeqsUpTo(_, _)
SeqsUpTo(S, n) ==
    IF n = 0 THEN {<<>>}
    ELSE LET shorter == SeqsUpTo(S, n - 1)
             more == {<<q, x>> \in shorter \X S : \A i \in 1..Len(q) : q[i] # x}
         IN shorter \cup {Append(qx[1], qx[2]) : qx \in more}
MarkerLists == SeqsUpTo({N_m, N_k}, MaxMarkers)

\* the (filename, extension) pairs a caller passes
FileArgs ==
    { <<None, None>>,
      <<Some(<<"f">> \o DOT \o S_targz), None>>,
      <<Some(<<"g">>), None>>,
      <<None, Some(S_tar \o DOT \o <<"g">> \o S_zip)>>,
      <<None, Some(S_tgz)>>,
      <<None, Some(S_tar)>>,
      <<None, Some(<<"t", "x", "t">>)>> }

\* the filesystems a call can find
InitialFilesystems ==
    LET c == C_dir
        md == c \o sep \o M_d
        ck == md \o sep \o S_checkpoints
        cached ==
            { [dirs |-> {}, files |-> {}],
              [dirs |-> {md}, files |-> {}],
              [dirs |-> {md, ck}, files |-> {}] }
            \cup { [dirs |-> {md, ck}, files |-> {ck \o sep \o n : n \in S}] :
                     S \in {{N_a, N_b, N_c}, {N_n}, {N_b, N_n}} }
        leftover ==
            { {}, {md \o DOT \o S_zip, md \o DOT \o S_targz, md \o DOT \o S_tar} }
        markers == { {c \o sep \o N_m}, {c \o sep \o N_m, c \o sep \o N_k} }
    IN { [dirs |-> {}, files |-> {}] }
       \cup { [dirs |-> {c} \cup x.dirs, files |-> x.files \cup l] :
                x \in cached, l \in leftover }
       \cup { [dirs |-> {c}, files |-> m] : m \in markers }

-----------------------------------------------------------------------------
(* The functions of download_utils.py. *)

\* an effect of a call, as the log records it
Event(o, p) == [op |-> o, path |-> p]

\* get_cache_folder: os.path.join returns a str, and a str has neither
\* `exists` nor `mkdir`, so line 39 raises before anything is created
Home == <<"/", "h">>
S_cache == <<".", "c", "a", "c", "h", "e">>
S_torch == <<"t", "o", "r", "c", "h">>
S_unbabel_comet == <<"u", "n", "b", "a", "b", "e", "l", "_", "c", "o", "m", "e", "t">>
StrMethods == {"endswith", "startswith", "split", "format"}
get_cache_folder(f) ==
    LET cache_directory ==
            os_path_join(os_path_join(os_path_join(Home, S_cache), S_torch),
                         S_unbabel_comet)
    IN IF "exists" \notin StrMethods
       THEN [fs |-> f, ret |-> <<>>, exc |-> "AttributeError", made |-> FALSE]
       ELSE IF os_path_exists(f, cache_directory)
       THEN [fs |-> f, ret |-> cache_directory, exc |-> NoExc, made |-> FALSE]
       ELSE [fs |-> os_makedirs(f, cache_directory).fs, ret |-> cache_directory,
             exc |-> os_makedirs(f, cache_directory).exc, made |-> TRUE]

\* a variant of _check_download that tests os.path.isdir instead of isfile
_check_download_isdir(f, filepaths) ==
    \A i \in 1..Len(filepaths) : os_path_isdir(f, filepaths[i])

\* _check_download(*filepaths)
_check_download(f, filepaths) ==
    \A i \in 1..Len(filepaths) : os_path_isfile(f, filepaths[i])

\* _maybe_extract, lines 82-84: the extension of a file name, an optional
\* (None when split(".", 1) has no second element: IndexError)
DeriveExtension(compressed_filename) ==
    LET basename == os_path_basename(compressed_filename)
        i == find(basename, ".")
    IN IF i = 0 THEN None ELSE Some(from(basename, i + 1))

\* a variant of the dispatch that tests "tar" before "zip"
Dispatch_tarfirst(ext) ==
    IF contains(S_targz, ext) \/ contains(S_tgz, ext) THEN "tar_zxvf"
    ELSE IF contains(S_tar, ext) THEN "tar_xvf"
    ELSE IF contains(S_zip, ext) THEN "zip_extractall"
    ELSE "none"

\* _maybe_extract, lines 86-101: the branch an extension selects
Dispatch(ext) ==
    IF contains(S_zip, ext) THEN "zip_extractall"
    ELSE IF contains(S_targz, ext) \/ contains(S_tgz, ext) THEN "tar_zxvf"
    ELSE IF contains(S_tar, ext) THEN "tar_xvf"
    ELSE "none"

\* download_model, lines 235-241: the archive names removed, in order
CleanSuffixes == <<DOT \o S_zip, DOT \o S_targz, DOT \o S_tar>>
RECURSIVE CleanFrom(_, _, _, _)
CleanFrom(f, base, i, done) ==
    IF i > Len(CleanSuffixes) THEN [fs |-> f, exc |-> NoExc, log |-> done]
    ELSE LET p == base \o CleanSuffixes[i]
         IN IF ~os_path_exists(f, p) THEN CleanFrom(f, base, i + 1, done)
            ELSE LET r == os_remove(f, p)
                 IN IF r.exc # NoExc
                    THEN [fs |-> f, exc |-> r.exc, log |-> done]
                    ELSE CleanFrom(r.fs, base, i + 1, Append(done, Event("remove", p)))

\* download_model, line 243: the folder the checkpoints are listed in
CheckpointsFolder(sd, m) == sd \o m \o sep \o S_checkpoints

\* a variant of the filter of line 245 that keeps every entry
IsCheckpoint_any(file) == TRUE

\* download_model, line 245: the filter of the listing
IsCheckpoint(file) == endswith(file, S_ckpt)
\* download_model, lines 244-247: the checkpoint picked from a listing
PickCheckpoint(listing) ==
    LET checkpoints == SelectSeq(listing, IsCheckpoint)
    IN IF checkpoints = <<>> THEN None ELSE Some(checkpoints[Len(checkpoints)])

-----------------------------------------------------------------------------
(* The error kinds of the specification, as the code raises them. *)

\* line 223: Exception("... is not in the `available_metrics` ...")
UnknownModelError == "Exception: not in the available_metrics"
\* line 233: Exception("Invalid model name!")
InvalidRegistryEntryError == "Exception: Invalid model name!"
\* line 182: ValueError("[DOWNLOAD FAILED] `*check_files` not found")
DownloadVerificationError == "ValueError: [DOWNLOAD FAILED]"
\* lines 245-247: checkpoints[-1] of an empty list, or os.listdir of a
\* checkpoints folder that is not there
NoCheckpointFoundError == {"IndexError", "FileNotFoundError", "NotADirectoryError"}

-----------------------------------------------------------------------------
(* The state machine. *)

\* what is remembered of the call before this one
NoCall == [op |-> "none", model |-> <<>>, saving_directory |-> <<>>,
           ret |-> <<>>, exc |-> NoExc]

Init ==
    /\ fs \in InitialFilesystems
    /\ available_metrics \in Registries
    /\ pc = "idle"
    /\ op = "none"
    /\ model = <<>>
    /\ saving_directory = <<>>
    /\ url = <<>>
    /\ directory = <<>>
    /\ filename = <<>>
    /\ extension = None
    /\ check_files = <<>>
    /\ filepath = <<>>
    /\ content = NoContent
    /\ log = <<>>
    /\ ret = <<>>
    /\ exc = NoExc
    /\ fs0 = fs
    /\ args = <<>>
    /\ prev = NoCall
    /\ listed = [dir |-> <<>>, names |-> <<>>]
    /\ ncalls = 0

\* the call ends by raising e
Raise(e, f, l) == pc' = "done" /\ exc' = e /\ ret' = <<>> /\ fs' = f /\ log' = l
\* the call ends by returning v
Return(v, f, l) == pc' = "done" /\ exc' = NoExc /\ ret' = v /\ fs' = f /\ log' = l
\* the call goes on at position p
Goto(p, f, l) == pc' = p /\ exc' = NoExc /\ ret' = <<>> /\ fs' = f /\ log' = l

\* a caller invokes function o with arguments a
Begin(o, a) ==
    /\ pc = "idle"
    /\ ncalls' = ncalls + 1
    /\ op' = o
    /\ args' = a
    /\ fs0' = fs
    /\ UNCHANGED <<available_metrics, prev, listed>>

\* no download_file_maybe_extract frame
NoDownload ==
    /\ url' = <<>> /\ directory' = <<>> /\ filename' = <<>> /\ extension' = None
    /\ check_files' = <<>> /\ filepath' = <<>> /\ content' = NoContent

\* download_file_maybe_extract, lines 158-171, entered with filesystem f and log l
EnterDownload(f, l, u, d, fn, ext, cf) ==
    LET name == IF fn = None THEN _get_filename_from_url(u) ELSE fn[1]
        path == os_path_join(d, name)
        checks == IF cf = <<>> THEN <<>>
                  ELSE [i \in 1..Len(cf) |-> os_path_join(d, cf[i])]
        made == IF os_path_isdir(f, d) THEN [fs |-> f, exc |-> NoExc]
                ELSE os_makedirs(f, d)
    IN /\ url' = u /\ directory' = d /\ filename' = name /\ extension' = ext
       /\ check_files' = checks /\ filepath' = path /\ content' = NoContent
       /\ IF Len(checks) > 0 /\ _check_download(f, checks)
          THEN Return(path, f, l)
          ELSE IF made.exc # NoExc THEN Raise(made.exc, f, l)
          ELSE Goto("urlretrieve", made.fs,
                    IF made.fs = f THEN l ELSE Append(l, Event("makedirs", d)))

\* download_model(model, saving_directory), lines 208-233
CallDownloadModel(m, sd) ==
    /\ ncalls < MaxCalls
    /\ Begin("download_model", <<m, sd>>)
    /\ LET cache == get_cache_folder(fs)
       IN IF sd = None /\ cache.exc # NoExc
          THEN /\ Raise(cache.exc, cache.fs, <<>>)
               /\ model' = m /\ saving_directory' = <<>> /\ NoDownload
          ELSE
            LET f1 == IF sd = None THEN cache.fs ELSE fs
                sd1 == IF sd = None THEN cache.ret ELSE sd[1]
                sd2 == IF endswith(sd1, sep) THEN sd1 ELSE sd1 \o sep
                made == IF os_path_exists(f1, sd2) THEN [fs |-> f1, exc |-> NoExc]
                        ELSE os_makedirs(f1, sd2)
                l == IF made.fs = fs THEN <<>> ELSE <<Event("makedirs", sd2)>>
            IN /\ saving_directory' = sd2
               /\ IF made.exc # NoExc
                  THEN Raise(made.exc, f1, <<>>) /\ model' = m /\ NoDownload
                  ELSE IF os_path_isdir(made.fs, sd2 \o m)
                  THEN /\ model' = IF endswith(m, sep) THEN m ELSE m \o sep
                       /\ Goto("clean", made.fs, l) /\ NoDownload
                  ELSE IF m \notin DOMAIN available_metrics
                  THEN Raise(UnknownModelError, made.fs, l) /\ model' = m /\ NoDownload
                  ELSE IF startswith(available_metrics[m], S_https)
                  THEN /\ model' = m
                       /\ EnterDownload(made.fs, l, available_metrics[m], sd2,
                                        None, None, <<>>)
                  ELSE Raise(InvalidRegistryEntryError, made.fs, l)
                       /\ model' = m /\ NoDownload

\* download_file_maybe_extract(url, directory, filename, extension, check_files),
\* called directly
CallDownloadFileMaybeExtract(u, d, fn, ext, cf) ==
    /\ ncalls < MaxFileCalls
    /\ Begin("download_file_maybe_extract", <<u, d, fn, ext, cf>>)
    /\ model' = <<>> /\ saving_directory' = <<>>
    /\ EnterDownload(fs, <<>>, u, d, fn, ext, cf)

\* get_cache_folder(), called directly
CallGetCacheFolder ==
    /\ ncalls < MaxCalls
    /\ Begin("get_cache_folder", <<>>)
    /\ model' = <<>> /\ saving_directory' = <<>> /\ NoDownload
    /\ LET r == get_cache_folder(fs)
       IN IF r.exc # NoExc THEN Raise(r.exc, r.fs, <<>>)
          ELSE Return(r.ret, r.fs,
                      IF r.made THEN <<Event("makedirs", r.ret)>> ELSE <<>>)

frame == <<available_metrics, op, model, saving_directory, url, directory, filename,
           extension, check_files, filepath, fs0, args, prev, ncalls>>

\* os.listdir(p): the entries of p in an order the system chooses; the order
\* stays what it was while the directory holds the same entries
Listings(f, p) ==
    IF listed.dir = Canon(p) /\ {listed.names[i] : i \in 1..Len(listed.names)} = Entries(f, p)
    THEN {listed.names}
    ELSE Orders(Entries(f, p))

\* line 175: urllib.request.urlretrieve(url, filename=filepath)
Urlretrieve ==
    /\ pc = "urlretrieve"
    /\ \E o \in TransferOutcomes :
        LET l == Append(log, Event("urlretrieve", url))
            target == Canon(filepath)
            written == [fs EXCEPT !.files = @ \cup {target}]
        IN IF o.exc = "URLError"
           THEN Raise(o.exc, fs, l) /\ content' = NoContent
           ELSE IF target \in fs.dirs \/ endswith(filepath, sep) \/ target = <<>>
           THEN Raise("IsADirectoryError", fs, l) /\ content' = NoContent
           ELSE IF ~(Ancestors(target) \subseteq fs.dirs)
           THEN Raise("FileNotFoundError", fs, l) /\ content' = NoContent
           ELSE IF o.exc # NoExc
           THEN Raise(o.exc, written, l) /\ content' = NoContent
           ELSE Goto("extract", written, l) /\ content' = o.content
    /\ UNCHANGED <<frame, listed>>

\* lines 177-179: _maybe_extract(filepath, directory, extension), lines 80-103
MaybeExtract ==
    /\ pc = "extract"
    /\ LET e == IF extension = None THEN DeriveExtension(filepath) ELSE extension
       IN IF e = None THEN Raise("IndexError", fs, log)
          ELSE LET how == Dispatch(e[1])
                   l == Append(log, Event(how, filepath))
               IN IF how = "zip_extractall"
                  THEN IF content.kind # "zip" THEN Raise("BadZipFile", fs, l)
                       ELSE Goto("check", Unpack(fs, directory, content.entries), l)
                  ELSE IF how \in {"tar_zxvf", "tar_xvf"}
                  THEN \E extracted \in BOOLEAN :
                         Goto("check",
                              IF extracted /\ content.kind \in {"tar", "tar.gz"}
                              THEN Unpack(fs, directory, content.entries) ELSE fs,
                              l)
                  ELSE Goto("check", fs, log)
    /\ UNCHANGED <<frame, content, listed>>

\* a variant of lines 181-184 that returns without the check
CheckDownload_nocheck ==
    /\ pc = "check"
    /\ IF op = "download_model" THEN Goto("clean", fs, log)
       ELSE Return(filepath, fs, log)
    /\ UNCHANGED <<frame, content, listed>>

\* lines 181-184: the check after the extraction, and the return
CheckDownload ==
    /\ pc = "check"
    /\ IF ~_check_download(fs, check_files)
       THEN Raise(DownloadVerificationError, fs, log)
       ELSE IF op = "download_model" THEN Goto("clean", fs, log)
       ELSE Return(filepath, fs, log)
    /\ UNCHANGED <<frame, content, listed>>

\* download_model, lines 235-241: CLEAN Cache
CleanCache ==
    /\ pc = "clean"
    /\ LET r == CleanFrom(fs, saving_directory \o model, 1, log)
       IN IF r.exc # NoExc THEN Raise(r.exc, r.fs, r.log)
          ELSE Goto("resolve", r.fs, r.log)
    /\ UNCHANGED <<frame, content, listed>>

\* download_model, lines 243-249: list the checkpoints and return the last
ResolveCheckpoint ==
    /\ pc = "resolve"
    /\ LET checkpoints_folder == CheckpointsFolder(saving_directory, model)
           l == Append(log, Event("listdir", checkpoints_folder))
       IN IF ~os_path_isdir(fs, checkpoints_folder)
          THEN /\ Raise(IF os_path_isfile(fs, checkpoints_folder)
                        THEN "NotADirectoryError" ELSE "FileNotFoundError", fs, l)
               /\ UNCHANGED listed
          ELSE \E listing \in Listings(fs, checkpoints_folder) :
                 LET checkpoint == PickCheckpoint(listing)
                 IN /\ listed' = [dir |-> Canon(checkpoints_folder), names |-> listing]
                    /\ IF checkpoint = None THEN Raise("IndexError", fs, l)
                       ELSE Return(os_path_join(checkpoints_folder, checkpoint[1]), fs, l)
    /\ UNCHANGED <<frame, content>>

\* the caller takes the result; the next call starts from the filesystem
\* this one left
Finish ==
    /\ pc = "done"
    /\ pc' = "idle"
    /\ prev' = IF op = "download_model"
               THEN [op |-> op, model |-> args[1], saving_directory |-> saving_directory,
                     ret |-> ret, exc |-> exc]
               ELSE [NoCall EXCEPT !.op = op]
    /\ op' = "none" /\ args' = <<>> /\ fs0' = fs
    /\ model' = <<>> /\ saving_directory' = <<>> /\ NoDownload
    /\ log' = <<>> /\ ret' = <<>> /\ exc' = NoExc
    /\ UNCHANGED <<fs, available_metrics, listed, ncalls>>

\* the steps of a running call
Step ==
    \/ Urlretrieve
    \/ MaybeExtract
    \/ CheckDownload
    \/ Finish

\* callers of download_model and get_cache_folder
Next ==
    \/ \E m \in {M_d, M_b, M_u}, sd \in {None, Some(C_dir), Some(C_dirsep)} :
         CallDownloadModel(m, sd)
    \/ CallGetCacheFolder
    \/ CleanCache
    \/ ResolveCheckpoint
    \/ Step

Spec == Init /\ [][Next]_vars

\* callers of download_file_maybe_extract
NextFile ==
    \/ \E d \in {C_dir, C_dirsep}, fe \in FileArgs, cf \in MarkerLists :
         CallDownloadFileMaybeExtract(URL_d, d, fe[1], fe[2], cf)
    \/ Step

SpecFile == Init /\ [][NextFile]_vars

-----------------------------------------------------------------------------
(* Vocabulary of the properties. *)

\* the effects of the running call that are of kind o, in order
EventsOf(kinds) == SelectSeq(log, LAMBDA e : e.op \in kinds)
HasEvent(o) == \E i \in 1..Len(log) : log[i].op = o
Transfers == {"urlretrieve"}
Extractions == {"zip_extractall", "tar_zxvf", "tar_xvf"}

\* a call of download_model / download_file_maybe_extract has ended
ModelCallDone == op = "download_model" /\ pc = "done"
FileCallDone == op = "download_file_maybe_extract" /\ pc = "done"

\* <directory>/<name> as a path of the filesystem
Under(d, n) == Canon(d \o sep \o n)

\* download_model's arguments: the model name, and the save directory (the
\* default cache directory when none is given)
ArgModel == args[1]
DefaultCache == <<"/", "h", "/">> \o S_cache \o sep \o S_torch \o sep \o S_unbabel_comet
ArgSaveDir == IF args[2] = None THEN DefaultCache ELSE args[2][1]
\* <save_directory>/<model_name>/checkpoints
ArgCheckpoints == Under(Under(ArgSaveDir, ArgModel), S_checkpoints)
\* its entries that end in ".ckpt"
CkptEntries(f) == {n \in Entries(f, ArgCheckpoints) : endswith(n, S_ckpt)}

\* download_file_maybe_extract's arguments
ArgDirectory == args[2]
ArgFilename == IF args[3] = None THEN <<"d", ".", "z", "i", "p">> ELSE args[3][1]
ArgExtension == args[4]
ArgMarkers == args[5]
\* every marker path <directory>/<marker> is a file of f
MarkersPresent(f) ==
    \A i \in 1..Len(ArgMarkers) : Under(ArgDirectory, ArgMarkers[i]) \in f.files

\* the order of the characters, and of strings
Ascii == <<".", "/", ":", "_", "a", "b", "c", "d", "e", "f", "g", "h", "i", "j", "k",
           "l", "m", "n", "o", "p", "q", "r", "s", "t", "u", "v", "w", "x", "y", "z">>
Code(c) == CHOOSE i \in 1..Len(Ascii) : Ascii[i] = c
RECURSIVE LexLeq(_, _)
LexLeq(a, b) ==
    IF a = <<>> THEN TRUE
    ELSE IF b = <<>> THEN FALSE
    ELSE IF a[1] = b[1] THEN LexLeq(Tail(a), Tail(b))
    ELSE Code(a[1]) < Code(b[1])
LexMax(S) == CHOOSE x \in S : \A y \in S : LexLeq(y, x)

-----------------------------------------------------------------------------
\* the case of C1
C1_Precondition ==
    /\ op = "download_file_maybe_extract"
    /\ Len(ArgMarkers) > 0
    /\ MarkersPresent(fs0)
(* C1.  Cache short-circuit: a call of download_file_maybe_extract whose   *)
(* marker list is not empty and whose marker paths <directory>/<marker>    *)
(* are all files when the call starts returns <directory>/<filename>, makes *)
(* no transfer, extracts nothing and leaves the filesystem as it was, also  *)
(* when <directory>/<filename> does not exist.                              *)
C1_CacheShortCircuit ==
    C1_Precondition =>
        /\ pc = "done" /\ exc = NoExc
        /\ Canon(ret) = Under(ArgDirectory, ArgFilename)
        /\ log = <<>>
        /\ fs = fs0
C1_Witness ==
    /\ C1_Precondition /\ pc = "done"
    /\ Len(ArgMarkers) = 2 /\ ArgMarkers[1] # ArgMarkers[2]
    /\ ~os_path_exists(fs, ret)

(* C4.  Verification failure: when a call of download_file_maybe_extract    *)
(* reaches the check after the transfer and the extraction, it raises       *)
(* DownloadVerificationError and returns nothing if some marker path        *)
(* <directory>/<marker> is no file, and it returns <directory>/<filename>   *)
(* otherwise; with an empty marker list the check never fails.              *)
C4_VerificationFailure ==
    [][(op = "download_file_maybe_extract" /\ pc = "check") =>
          /\ pc' = "done"
          /\ IF MarkersPresent(fs)
             THEN exc' = NoExc /\ Canon(ret') = Under(ArgDirectory, ArgFilename)
             ELSE exc' = DownloadVerificationError /\ ret' = <<>>]_vars
C4_Witness ==
    /\ FileCallDone /\ exc = DownloadVerificationError
    /\ EventsOf(Extractions) # <<>>
    /\ \E i \in 1..Len(ArgMarkers) : Under(ArgDirectory, ArgMarkers[i]) \in fs.files
    /\ ~MarkersPresent(fs)

\* the case of C9
C9_Extension ==
    IF ArgExtension # None THEN ArgExtension[1]
    ELSE from(ArgFilename, find(ArgFilename, ".") + 1)
C9_Expected ==
    LET e == C9_Extension
        zip == contains(S_zip, e)
        gz == contains(S_targz, e) \/ contains(S_tgz, e)
        tar == contains(S_tar, e)
    IN CASE zip -> <<"zip_extractall">>
         [] ~zip /\ gz -> <<"tar_zxvf">>
         [] ~zip /\ ~gz /\ tar -> <<"tar_xvf">>
         [] OTHER -> <<>>
C9_Extracted ==
    /\ op = "download_file_maybe_extract"
    /\ \/ pc = "check"
       \/ pc = "done" /\ HasEvent("urlretrieve")
          /\ exc \in {NoExc, DownloadVerificationError, "BadZipFile"}
(* C9.  Extraction dispatch precedence: the extraction step acts on the     *)
(* extension (the one supplied, or what follows the first "." of the file's *)
(* base name) by substring, in the order "zip", then "tar.gz" or "tgz",     *)
(* then "tar"; it takes exactly one of the three actions, or none and then  *)
(* leaves the file as it is.  An extension with both "zip" and "tar" is     *)
(* handled as zip.                                                          *)
C9_DispatchPrecedence ==
    C9_Extracted =>
        /\ [i \in 1..Len(EventsOf(Extractions)) |-> EventsOf(Extractions)[i].op] = C9_Expected
        /\ \A i \in 1..Len(EventsOf(Extractions)) :
               EventsOf(Extractions)[i].path = filepath
        /\ C9_Expected = <<>> =>
               /\ fs.files = fs0.files \cup {Under(ArgDirectory, ArgFilename)}
               /\ fs.dirs = fs0.dirs \cup {Canon(ArgDirectory)}
C9_Witness ==
    /\ C9_Extracted /\ pc = "check"
    /\ contains(S_zip, C9_Extension) /\ contains(S_tar, C9_Extension)
    /\ contains(S_targz, C9_Extension)
    /\ EventsOf(Extractions) = <<Event("zip_extractall", filepath)>>

\* the case of C10
C10_Precondition ==
    /\ ModelCallDone
    /\ HasEvent("listdir")
    /\ CkptEntries(fs) = {}
(* C10.  No checkpoint found: when download_model has listed                *)
(* <save_directory>/<model_name>/checkpoints and it holds no entry ending   *)
(* in ".ckpt", the call has raised NoCheckpointFoundError (IndexError when  *)
(* the folder is there, the listing's own error when it is not) and has     *)
(* returned no path.                                                        *)
C10_NoCheckpointFound ==
    C10_Precondition =>
        /\ ret = <<>>
        /\ exc \in NoCheckpointFoundError
        /\ ArgCheckpoints \in fs.dirs => exc = "IndexError"
C10_Witness ==
    /\ C10_Precondition
    /\ Entries(fs, ArgCheckpoints) # {}
    /\ HasEvent("urlretrieve")

\* the case of C2
C2_Repeated ==
    /\ ModelCallDone
    /\ prev.op = "download_model" /\ prev.exc = NoExc
    /\ prev.model = ArgModel /\ prev.saving_directory = saving_directory
(* C2.  Idempotence: a call of download_model that follows a successful    *)
(* call for the same model name and the same save directory, nothing else   *)
(* having touched the filesystem, returns the identical checkpoint path and *)
(* makes no transfer.                                                       *)
C2_Idempotence ==
    C2_Repeated => exc = NoExc /\ ret = prev.ret /\ ~HasEvent("urlretrieve")

(* C3.  Checkpoint selection: the path download_model returns names the     *)
(* lexicographically greatest of the entries of                             *)
(* <save_directory>/<model_name>/checkpoints that end in ".ckpt", whatever  *)
(* the order of the listing.                                                *)
C3_CheckpointSelection ==
    (ModelCallDone /\ exc = NoExc) =>
        /\ CkptEntries(fs) # {}
        /\ os_path_basename(ret) = LexMax(CkptEntries(fs))

\* the case of C5
C5_Scenario ==
    /\ ModelCallDone /\ exc = NoExc
    /\ ArgModel = M_d /\ M_d \in DOMAIN available_metrics
    /\ startswith(available_metrics[M_d], S_https)
    /\ endswith(available_metrics[M_d], M_d \o DOT \o S_zip)
    /\ Under(ArgSaveDir, M_d) \notin fs0.dirs \cup fs0.files
(* C5.  End-to-end ordering: with model d registered under an https url     *)
(* that ends in d.zip and a save directory that holds no d, a call of       *)
(* download_model that returns has made exactly one transfer, then exactly  *)
(* one zip extraction, then removed <save_directory>/d.zip, which is gone,  *)
(* and returns the last-sorted .ckpt of <save_directory>/d/checkpoints.     *)
C5_EndToEnd ==
    C5_Scenario =>
        LET acts == EventsOf(Transfers \cup Extractions \cup {"remove"})
            archive == Under(ArgSaveDir, M_d \o DOT \o S_zip)
        IN /\ Len(EventsOf(Transfers)) = 1
           /\ Len(EventsOf(Extractions)) = 1
           /\ Len(acts) >= 3
           /\ acts[1].op = "urlretrieve"
           /\ acts[2].op = "zip_extractall"
           /\ acts[3].op = "remove" /\ Canon(acts[3].path) = archive
           /\ archive \notin fs.files
           /\ CkptEntries(fs) # {}
           /\ os_path_basename(ret) = LexMax(CkptEntries(fs))

(* C6.  Default save directory: a call of download_model without a save     *)
(* directory does not fail while resolving the default directory, and       *)
(* leaves <home>/.cache/torch/unbabel_comet in place as its root.           *)
C6_DefaultDirectory ==
    (ModelCallDone /\ args[2] = None) =>
        /\ exc # "AttributeError"
        /\ Canon(DefaultCache) \in fs.dirs
        /\ Canon(saving_directory) = Canon(DefaultCache)

(* C7.  Unknown model: a call of download_model for a name that is not in   *)
(* the registry and for which <save_directory>/<model_name> is no directory *)
(* raises UnknownModelError, with no transfer, extraction, removal or       *)
(* listing before it.                                                       *)
C7_UnknownModel ==
    (/\ ModelCallDone
     /\ ArgModel \notin DOMAIN available_metrics
     /\ Under(ArgSaveDir, ArgModel) \notin fs0.dirs) =>
        /\ exc = UnknownModelError
        /\ EventsOf(Transfers \cup Extractions \cup {"remove", "listdir"}) = <<>>

(* C8.  Archive cleanup: when download_model returns a checkpoint path, by  *)
(* the cache-hit branch or the download branch, none of                     *)
(* <save_directory>/<model_name>.zip, .tar.gz and .tar exists.              *)
C8_ArchiveCleanup ==
    (ModelCallDone /\ exc = NoExc) =>
        \A suffix \in {DOT \o S_zip, DOT \o S_targz, DOT \o S_tar} :
            Under(ArgSaveDir, ArgModel \o suffix) \notin fs.files \cup fs.dirs

====
